---- MODULE Spec2Model ----
(***************************************************************************)
(* simplifia-installer: the pack installation pipeline (install.py), the   *)
(* install state ledger (state.py), the registry client (registry.py) and  *)
(* the update / uninstall flows (update.py, uninstall.py), as one state    *)
(* machine.  One CLI process runs at a time; pc is its position.           *)
(***************************************************************************)
EXTENDS Integers, Sequences, FiniteSets, TLC

\* ------------------------------------------------------------------ bounds
\* Timestamps datetime.now() may return: 1..MaxTime.
MaxTime == 2

\* ---------------------------------------------------------------- optionals
\* A Python value that may be missing (dict.get -> None): <<>> or <<x>>.
None == <<>>
Some(x) == <<x>>
\* dict.get(key, default)
GetOr(opt, default) == IF opt = None THEN default ELSE opt[1]

\* ------------------------------------------------------------------ digest
\* hashlib.sha256(bytes).hexdigest(): a digest of the artifact bytes, written
\* with the lower-case hex digits.  The digest is one byte wide here.
HexDigits == <<"0", "1", "2", "3", "4", "5", "6", "7",
               "8", "9", "a", "b", "c", "d", "e", "f">>
RECURSIVE Sha256Byte(_, _)
Sha256Byte(bytes, acc) ==
    IF bytes = <<>> THEN acc
    ELSE Sha256Byte(Tail(bytes), (acc * 31 + Head(bytes) + 7) % 256)
Sha256Hex(bytes) ==
    LET h == Sha256Byte(bytes, 5)
    IN  <<HexDigits[(h \div 16) + 1], HexDigits[(h % 16) + 1]>>

\* str.upper() / str.lower() on a string of hex digits (a sequence of characters).
UpperChar(c) ==
    CASE c = "a" -> "A" [] c = "b" -> "B" [] c = "c" -> "C"
      [] c = "d" -> "D" [] c = "e" -> "E" [] c = "f" -> "F" [] OTHER -> c
LowerChar(c) ==
    CASE c = "A" -> "a" [] c = "B" -> "b" [] c = "C" -> "c"
      [] c = "D" -> "d" [] c = "E" -> "e" [] c = "F" -> "f" [] OTHER -> c
Upper(s) == [i \in 1..Len(s) |-> UpperChar(s[i])]
Lower(s) == [i \in 1..Len(s) |-> LowerChar(s[i])]

\* `if expected_sha:` -- None and the empty string are both false.
Truthy(opt) == opt # None /\ opt[1] # <<>>

\* ---------------------------------------------------------- Python dicts
\* A dict is the sequence of its <<key, value>> items in insertion order.
Keys(d) == {d[i][1] : i \in 1..Len(d)}
HasKey(d, k) == \E i \in 1..Len(d) : d[i][1] = k
IndexOf(d, k) == CHOOSE i \in 1..Len(d) : d[i][1] = k
Lookup(d, k) == d[IndexOf(d, k)][2]
\* d[k] = v : replaces the value in place, or appends a new item.
DictSet(d, k, v) ==
    IF HasKey(d, k)
    THEN [i \in 1..Len(d) |-> IF d[i][1] = k THEN <<k, v>> ELSE d[i]]
    ELSE Append(d, <<k, v>>)
\* del d[k]
DictDel(d, k) == SelectSeq(d, LAMBDA it : it[1] # k)

\* ------------------------------------------------------------------- JSON
\* json.dumps(dict): "{", one token per item, "}".  A file holds a token
\* sequence; a write cut short leaves a proper prefix of it.
JsonDumps(d) ==
    <<<<"{">>>> \o [i \in 1..Len(d) |-> <<"item", d[i][1], d[i][2]>>] \o <<<<"}">>>>
\* The documents json.loads accepts: an object, or the empty array `[]`.
JsonObject(toks) ==
    /\ Len(toks) >= 2
    /\ toks[1][1] = "{"
    /\ toks[Len(toks)][1] = "}"
    /\ \A i \in 2..(Len(toks) - 1) : toks[i][1] = "item"
JsonArray(toks) == toks = << <<"[">>, <<"]">> >>
JsonValid(toks) == JsonObject(toks) \/ JsonArray(toks)
\* json.loads of a valid document.  Object: a repeated key keeps its first
\* position and its last value.  `[]`: the empty list, an empty sequence.
RECURSIVE JsonItems(_, _)
JsonItems(toks, d) ==
    IF toks = <<>> THEN d
    ELSE JsonItems(Tail(toks), DictSet(d, Head(toks)[2], Head(toks)[3]))
JsonLoads(toks) ==
    IF JsonArray(toks) THEN <<>>
    ELSE JsonItems(SubSeq(toks, 2, Len(toks) - 1), <<>>)

\* ------------------------------------------------------------ the packs
PackIds == {"p", "q"}
\* Destination directories of the workspace: ~/.simplifia/workflows/p, which
\* uninstall knows, and a directory outside ~/.simplifia.
DestDirs == {"workflows/p", "ext"}
FileNames == {"a", "b"}
MigrationFiles == {"m1", "m2"}
\* Directories of an extracted archive, relative to the extraction root:
\* ".", "X" and "X/Y"; iterdir() of one of them.
Subdirs(dir) == IF dir = "." THEN {"X"} ELSE IF dir = "X" THEN {"X/Y"} ELSE {}

\* pack.json (spec section 6): name, version, install.copy_to, install.db.
ManifestFull ==
    [name |-> Some("Gold"), version |-> Some("1.0.0"),
     copy_to |-> << <<"workflows", "workflows/p">>, <<"rules", "ext">> >>,
     db |-> None]
ManifestBare ==
    [name |-> None, version |-> None,
     copy_to |-> << <<"rules", "ext">>, <<"workflows", "workflows/p">> >>,
     db |-> Some([type |-> "sqlite", migrations |-> <<"m1", "m2">>])]
ManifestOther ==
    [name |-> Some("Gold"), version |-> Some("1.0.0"),
     copy_to |-> << <<"workflows", "workflows/p">>, <<"rules", "ext">> >>,
     db |-> Some([type |-> "postgres", migrations |-> <<"m1">>])]

\* The artifacts a download may deliver: the bytes, whether they are a zip
\* archive, the directories holding pack.json, the directory holding the
\* category folders and migration scripts, those folders and scripts, and
\* the member names that point outside the extraction directory.
ArtGood ==
    [bytes |-> <<1, 4>>, is_zip |-> TRUE, pack_json |-> {".", "X"},
     manifest |-> ManifestFull,
     content_at |-> ".", folders |-> {"workflows"}, files |-> {"a"},
     scripts |-> {}, outside |-> {}]
ArtNested ==
    [bytes |-> <<2>>, is_zip |-> TRUE, pack_json |-> {"X"}, manifest |-> ManifestBare,
     content_at |-> "X", folders |-> {"workflows", "rules"}, files |-> {"a", "b"},
     scripts |-> {"m1"}, outside |-> {}]
ArtNoManifest ==
    [bytes |-> <<3>>, is_zip |-> TRUE, pack_json |-> {"X/Y"}, manifest |-> ManifestBare,
     content_at |-> "X/Y", folders |-> {"workflows"}, files |-> {"a"},
     scripts |-> {}, outside |-> {}]
ArtCorrupt ==
    [bytes |-> <<4>>, is_zip |-> FALSE, pack_json |-> {}, manifest |-> ManifestBare,
     content_at |-> ".", folders |-> {}, files |-> {},
     scripts |-> {}, outside |-> {}]
ArtTraversal ==
    [bytes |-> <<5>>, is_zip |-> TRUE, pack_json |-> {"."}, manifest |-> ManifestOther,
     content_at |-> ".", folders |-> {}, files |-> {},
     scripts |-> {"m1"}, outside |-> {"../../evil"}]
Artifacts == {ArtGood, ArtNested, ArtNoManifest, ArtCorrupt, ArtTraversal}

\* Archives of a pack that ships only a store: pack.json declares the
\* migration list `migrations`, the archive holds the scripts `scripts`.
MaxMigrations == 3
RECURSIVE SeqsUpTo(_, _)
SeqsUpTo(S, n) ==
    IF n = 0 THEN {<<>>}
    ELSE LET shorter == SeqsUpTo(S, n - 1)
         IN  shorter \cup {Append(q, x) : q \in shorter, x \in S}
ArtMigrations(migrations, scripts) ==
    [bytes |-> <<6>>, is_zip |-> TRUE, pack_json |-> {"."},
     manifest |-> [name |-> None, version |-> None, copy_to |-> <<>>,
                   db |-> Some([type |-> "sqlite", migrations |-> migrations])],
     content_at |-> ".", folders |-> {}, files |-> {},
     scripts |-> scripts, outside |-> {}]
MigrationArtifacts ==
    {ArtMigrations(l, sc) : l \in SeqsUpTo(MigrationFiles, MaxMigrations),
                            sc \in SUBSET MigrationFiles}

\* -------------------------------------------------------------- registry
\* One element of the registry document's "packs" array (spec section 6).
Descriptor(id, url, sha, ver) ==
    [id |-> id, name |-> "Pack", latest_version |-> ver, zip_url |-> url,
     sha256 |-> sha]
GoodSha == Sha256Hex(ArtGood.bytes)
DescQ == Descriptor("q", Some("url"), None, "1.0.0")
DescsP ==
    {Descriptor("p", None, None, "1.0.0"),
     Descriptor("p", Some("url"), None, "1.0.0"),
     Descriptor("p", Some("url"), Some(<<>>), "2.0.0"),
     Descriptor("p", Some("url"), Some(GoodSha), "1.0.0"),
     Descriptor("p", Some("url"), Some(Upper(GoodSha)), "1.0.0"),
     Descriptor("p", Some("url"), Some(Sha256Hex(ArtNested.bytes)), "2.0.0")}
\* The documents the registry URL may serve (the "packs" array): the empty
\* listing, listings of p alone, and one of q and p.
RegistryDocs ==
    {<<>>} \cup {<<d>> : d \in DescsP}
           \cup {<<DescQ, Descriptor("p", None, None, "1.0.0")>>}

\* What the network serves during a behaviour, by name: the documents the
\* registry URL may answer with and the artifacts the zip_url may deliver.
AnyWorld == [docs |-> "any", arts |-> "any"]
Served(w) ==
    CASE w.docs = "any" -> RegistryDocs
      [] w.docs = "p" -> {<<Descriptor("p", Some("url"), None, "1.0.0")>>}
      [] w.docs = "p2" -> {<<Descriptor("p", Some("url"), Some(<<>>), "2.0.0")>>}
      [] w.docs = "pq" -> {<<Descriptor("p", Some("url"), None, "2.0.0"),
                             Descriptor("q", Some("url"), None, "2.0.0")>>,
                           <<Descriptor("p", Some("url"), None, "2.0.0"), DescQ>>,
                           <<DescQ>>}
Delivered(w) ==
    CASE w.arts = "any" -> Artifacts
      [] w.arts = "migrations" -> MigrationArtifacts

\* One HTTP request of the process: its target and whether it succeeded.
Request(to, ok) == [to |-> to, ok |-> ok]

\* Mutant: the empty listing returned after a failed request is cached.
fetch_registry_caching_errors(cached, served, ok, reqs) ==
    IF cached # None THEN <<cached[1], cached, reqs>>
    ELSE IF ok THEN <<served, Some(served), Append(reqs, Request("registry", TRUE))>>
    ELSE <<(<<>>), Some(<<>>), Append(reqs, Request("registry", FALSE))>>

\* fetch_registry: the cached document when there is one (a document with a
\* "packs" key is true in Python, also when the array is empty), else a GET
\* of the registry URL: the served document (cached) or, on an HTTP or JSON
\* error, the empty listing (not cached).  Returns <<document, new cache,
\* requests issued so far>>.
fetch_registry(cached, served, ok, reqs) ==
    IF cached # None THEN <<cached[1], cached, reqs>>
    ELSE IF ok THEN <<served, Some(served), Append(reqs, Request("registry", TRUE))>>
    ELSE <<(<<>>), cached, Append(reqs, Request("registry", FALSE))>>
\* get_pack_info: the first pack of the listing with this id, or None.
get_pack_info(doc, pack_id) ==
    LET hits == {i \in 1..Len(doc) : doc[i].id = pack_id}
    IN  IF hits = {} THEN None
        ELSE Some(doc[CHOOSE i \in hits : \A j \in hits : i <= j])

\* ---------------------------------------------------------------- ledger
NoFile == [exists |-> FALSE, toks |-> <<>>]
\* An installed.json that was not written by mark_installed: the JSON
\* document `[]`.
ListFile == [exists |-> TRUE, toks |-> << <<"[">>, <<"]">> >>]
\* get_installed_packs: {} for a missing file or one json.loads rejects,
\* else whatever json.loads returns.
get_installed_packs(file) ==
    IF ~file.exists THEN <<>>
    ELSE IF JsonValid(file.toks) THEN JsonLoads(file.toks)
    ELSE <<>>
\* Whether that value is a dict: json.loads of `[]` is a list, on which
\* `installed[pack_id] = info` raises TypeError.
ReturnsDict(file) == ~(file.exists /\ JsonArray(file.toks))
\* Path.write_text: open(path, "w") truncates the file, write() fills it.
OpenForWrite(file) == [exists |-> TRUE, toks |-> <<>>]
WriteData(file, data) == [exists |-> TRUE, toks |-> data]

\* ----------------------------------------------------------------- state
VARIABLES
    pc,          \* position of the running CLI process, "idle" when none runs
    args,        \* its command line: op, pack_id, force, keep_data
    cache,       \* registry._cached_registry of the process
    pack_info,   \* install_pack: the resolved descriptor
    local,       \* install_pack / mark_installed locals
    staging,     \* the TemporaryDirectory of the process: None, or its content
    ledger,      \* ~/.simplifia/installed.json: whether it exists, its tokens
    workspace,   \* the destination directories and their files
    store,       \* the SQLite store: whether the file exists, applied scripts
    report,      \* RELATORIO-PRIMEIRO-USO.md: None, or the pack it reports
    outcome,     \* how the last finished process ended
    stages,      \* history: the stages the current (or last) process entered
    requests,    \* history: the HTTP requests it has issued, and how each ended
    world,       \* what the network serves: registry documents and artifacts
    aux          \* bookkeeping of the specification being checked

vars == <<pc, args, cache, pack_info, local, staging, ledger,
          workspace, store, report, outcome, stages, requests, world, aux>>
disk == <<ledger, workspace, store, report>>

NoArgs == [op |-> "none", pack_id |-> "", force |-> FALSE, keep_data |-> FALSE]
NoLocal == [extract_path |-> "", pack_config |-> None, todo |-> <<>>,
            info |-> None, installed |-> <<>>]
NoOutcome == [result |-> "none", reason |-> "none", exit |-> -1, path |-> ""]
Absent == <<>>
UserFile == <<0>>
NoDir == [exists |-> FALSE, files |-> [f \in FileNames |-> Absent]]
EmptyWorkspace == [d \in DestDirs |-> NoDir]
UserWorkspace ==
    [EmptyWorkspace EXCEPT !["ext"] =
        [exists |-> TRUE, files |-> [f \in FileNames |->
                                        IF f = "b" THEN UserFile ELSE Absent]]]

NoAux == [spec |-> "Spec"]

Init ==
    /\ pc = "idle"
    /\ args = NoArgs
    /\ cache = None
    /\ pack_info = None
    /\ local = NoLocal
    /\ staging = None
    /\ ledger \in {NoFile, ListFile}
    /\ workspace = UserWorkspace
    /\ store = [exists |-> FALSE, applied |-> {}]
    /\ report = None
    /\ outcome = NoOutcome
    /\ stages = <<>>
    /\ requests = <<>>
    /\ world = AnyWorld
    /\ aux = NoAux

\* ------------------------------------------------------- process control
\* Mutant: tempfile.mkdtemp() without a removal.
KeepDirectory(st) == st

\* with tempfile.TemporaryDirectory(): leaving the block removes the directory.
TemporaryDirectoryExit(st) == None

\* The process enters the next stage of its pipeline.
Goto(stage) ==
    /\ pc' = stage
    /\ stages' = Append(stages, stage)

\* cli.py 153-180, 323-330: the commands drop what install_pack, update_pack
\* and uninstall_pack return, so the process exits with status 0 unless an
\* exception reached the top (status 1).
ExitCode(result) == IF result = "raised" THEN 1 ELSE 0

\* The running function returns (or raises) to the CLI, which ends the
\* process: the with block is left and its staging directory removed.
\* ReturnAfterFetch: the same, right after a registry lookup `got`.
\* Raise: an OSError reaches the top; `path` is the filename it carries
\* ("" when it carries none), which the traceback prints.
Finish(result, reason, path, got) ==
    /\ pc' = "done"
    /\ outcome' = [result |-> result, reason |-> reason,
                   exit |-> ExitCode(result), path |-> path]
    /\ staging' = TemporaryDirectoryExit(staging)
    /\ cache' = got[2]
    /\ requests' = got[3]
    /\ pack_info' = None
    /\ local' = NoLocal
    /\ UNCHANGED <<args, stages>>
ReturnAfterFetch(result, reason, got) == Finish(result, reason, "", got)
Return(result, reason) == ReturnAfterFetch(result, reason, <<(<<>>), cache, requests>>)
Raise(reason, path) == Finish("raised", reason, path, <<(<<>>), cache, requests>>)

\* A CLI process starts (cli.py: install, update, uninstall).
Start(op, pack_id, force, keep_data, first) ==
    /\ pc = "idle"
    /\ pc' = first
    /\ stages' = <<first>>
    /\ args' = [op |-> op, pack_id |-> pack_id, force |-> force,
                keep_data |-> keep_data]
    /\ outcome' = NoOutcome
    /\ UNCHANGED <<cache, pack_info, local, staging, disk, requests>>

CliInstall ==
    \E p \in PackIds, f \in BOOLEAN : Start("install", p, f, FALSE, "resolve")
CliUpdate ==
    \E p \in PackIds : Start("update", p, FALSE, FALSE, "update")
CliUninstall ==
    \E p \in PackIds, k \in BOOLEAN : Start("uninstall", p, FALSE, k, "un_check")

\* The process is killed from outside at any point: nothing of it runs any
\* more and the disk stays as it is.  (A staging directory it held stays
\* too; `staging` follows the directory of the running process only.)
Kill ==
    /\ pc \notin {"idle", "done"}
    /\ pc' = "idle"
    /\ outcome' = NoOutcome
    /\ stages' = <<>>
    /\ staging' = None
    /\ args' = NoArgs
    /\ cache' = None
    /\ requests' = <<>>
    /\ pack_info' = None
    /\ local' = NoLocal
    /\ UNCHANGED disk

\* The process has ended and the shell is ready for the next command.
ProcessExit ==
    /\ pc = "done"
    /\ pc' = "idle"
    /\ outcome' = NoOutcome
    /\ stages' = <<>>
    /\ staging' = None
    /\ args' = NoArgs
    /\ cache' = None
    /\ requests' = <<>>
    /\ UNCHANGED <<pack_info, local, disk>>

\* ------------------------------------------------------------ install_pack
\* Mutant: the artifact request is opened before the staging directory
\* exists.
ResolveOpensStream ==
    /\ pc = "resolve"
    /\ \E served \in Served(world), ok \in BOOLEAN :
         LET got == fetch_registry(cache, served, ok, requests)
             info == get_pack_info(got[1], args.pack_id)
         IN  IF info = None
             THEN ReturnAfterFetch("False", "NotFound", got) /\ UNCHANGED disk
             ELSE IF info[1].zip_url = None
             THEN ReturnAfterFetch("False", "NoRelease", got) /\ UNCHANGED disk
             ELSE /\ Goto("mktemp")
                  /\ cache' = got[2]
                  /\ requests' = Append(got[3], Request("artifact", TRUE))
                  /\ pack_info' = info
                  /\ UNCHANGED <<args, local, staging, disk, outcome>>

\* Mutant: without --force a pack that is in the ledger is left alone.
ResolveUnlessInstalled ==
    /\ pc = "resolve"
    /\ IF ~args.force /\ HasKey(get_installed_packs(ledger), args.pack_id)
       THEN Return("True", "AlreadyInstalled") /\ UNCHANGED disk
       ELSE \E served \in Served(world), ok \in BOOLEAN :
         LET got == fetch_registry(cache, served, ok, requests)
             info == get_pack_info(got[1], args.pack_id)
         IN  IF info = None
             THEN ReturnAfterFetch("False", "NotFound", got) /\ UNCHANGED disk
             ELSE IF info[1].zip_url = None
             THEN ReturnAfterFetch("False", "NoRelease", got) /\ UNCHANGED disk
             ELSE /\ Goto("mktemp")
                  /\ cache' = got[2]
                  /\ requests' = got[3]
                  /\ pack_info' = info
                  /\ UNCHANGED <<args, local, staging, disk, outcome>>

\* install.py 25-38: resolve the pack in the registry.
Resolve ==
    /\ pc = "resolve"
    /\ \E served \in Served(world), ok \in BOOLEAN :
         LET got == fetch_registry(cache, served, ok, requests)
             info == get_pack_info(got[1], args.pack_id)
         IN  IF info = None
             THEN ReturnAfterFetch("False", "NotFound", got) /\ UNCHANGED disk
             ELSE IF info[1].zip_url = None
             THEN ReturnAfterFetch("False", "NoRelease", got) /\ UNCHANGED disk
             ELSE /\ Goto("mktemp")
                  /\ cache' = got[2]
                  /\ requests' = got[3]
                  /\ pack_info' = info
                  /\ UNCHANGED <<args, local, staging, disk, outcome>>

\* install.py 43-45: the staging directory is created.
MkTemp ==
    /\ pc = "mktemp"
    /\ staging' = Some([zip |-> None, extracted |-> FALSE])
    /\ Goto("download")
    /\ UNCHANGED <<args, cache, pack_info, local, disk, outcome, requests>>

\* install.py 47-65: the artifact is streamed to the staging directory, or
\* the request fails with an HTTPError.
Download ==
    /\ pc = "download"
    /\ \/ /\ ReturnAfterFetch("False", "FetchError",
                               <<(<<>>), cache,
                                 Append(requests, Request("artifact", FALSE))>>)
          /\ UNCHANGED disk
       \/ \E a \in Delivered(world) :
            /\ staging' = Some([staging[1] EXCEPT !.zip = Some(a)])
            /\ requests' = Append(requests, Request("artifact", TRUE))
            /\ Goto("verify")
            /\ UNCHANGED <<args, cache, pack_info, local, disk, outcome>>

\* Mutant: the digest is never compared.
DigestNeverChecked(expected_sha, bytes) == FALSE
\* Mutant: a missing digest counts as a mismatch.
DigestRequired(expected_sha, bytes) ==
    ~Truthy(expected_sha) \/ Sha256Hex(bytes) # expected_sha[1]

\* install.py 67-75: the digest comparison, `actual_sha != expected_sha`.
DigestMismatch(expected_sha, bytes) ==
    Truthy(expected_sha) /\ Sha256Hex(bytes) # expected_sha[1]

Verify ==
    /\ pc = "verify"
    /\ IF DigestMismatch(pack_info[1].sha256, staging[1].zip[1].bytes)
       THEN Return("False", "DigestMismatch") /\ UNCHANGED disk
       ELSE /\ Goto("extract")
            /\ UNCHANGED <<args, cache, pack_info, local, staging, disk, outcome, requests>>

\* Mutant: the archive is unpacked straight into a destination directory.
ExtractInPlace ==
    /\ pc = "extract"
    /\ staging[1].zip[1].is_zip
    /\ staging' = Some([staging[1] EXCEPT !.extracted = TRUE])
    /\ workspace' = [workspace EXCEPT !["ext"].exists = TRUE,
                                      !["ext"].files["a"] = staging[1].zip[1].bytes]
    /\ Goto("manifest")
    /\ UNCHANGED <<args, cache, pack_info, local, ledger, store, report, outcome, requests>>

\* install.py 77-80: zipfile.ZipFile raises BadZipFile on bytes that are no
\* archive; extractall unpacks into the staging directory.  A member whose
\* name points outside it (a.outside) is no error for extractall: it drops
\* the ".." parts of the name and writes the member inside the directory.
Extract ==
    /\ pc = "extract"
    /\ IF ~staging[1].zip[1].is_zip
       THEN Return("raised", "Corrupt") /\ UNCHANGED disk
       ELSE /\ staging' = Some([staging[1] EXCEPT !.extracted = TRUE])
            /\ Goto("manifest")
            /\ UNCHANGED <<args, cache, pack_info, local, disk, outcome, requests>>

\* Mutant: pack.json is looked for at every depth of the extracted tree.
ManifestRootsAnyDepth(a) == a.pack_json

\* install.py 82-97: pack.json at the extraction root, else in an immediate
\* subdirectory (iterdir's order: any one that has it).  The set of
\* directories the search may settle on.
ManifestRoots(a) ==
    IF "." \in a.pack_json THEN {"."}
    ELSE {d \in Subdirs(".") : d \in a.pack_json}

FindManifest ==
    /\ pc = "manifest"
    /\ LET a == staging[1].zip[1]
       IN  IF ManifestRoots(a) = {}
           THEN Return("False", "ManifestMissing") /\ UNCHANGED disk
           ELSE \E root \in ManifestRoots(a) :
                  /\ local' = [local EXCEPT !.extract_path = root,
                                             !.pack_config = Some(a.manifest),
                                             !.todo = a.manifest.copy_to]
                  /\ Goto("copy")
                  /\ UNCHANGED <<args, cache, pack_info, staging, disk,
                                 outcome, requests>>

\* install.py 106-114: the files of one category folder are copied over the
\* destination directory, which is created when missing.
\* Mutant: the destination directory is replaced by the category folder.
CopyReplacing(ws, dest, names, content) ==
    [ws EXCEPT ![dest] =
        [exists |-> TRUE,
         files |-> [f \in FileNames |-> IF f \in names THEN content ELSE Absent]]]

CopyInto(ws, dest, names, content) ==
    [ws EXCEPT ![dest] =
        [exists |-> TRUE,
         files |-> [f \in FileNames |->
                      IF f \in names THEN content ELSE ws[dest].files[f]]]]

\* Mutant: every category of copy_to is taken to be in the archive.
SrcAlwaysExists(a, extract_path, folder_type) == TRUE
\* install.py 104-105: `src = extract_path / folder_type; src.exists()`.
SrcExists(a, extract_path, folder_type) ==
    extract_path = a.content_at /\ folder_type \in a.folders

\* Mutant: the migrations run whenever the manifest declares a db.
HasDb(pack_config) == pack_config.db # None
\* install.py 119-120: `db_config.get("type") == "sqlite"`.
IsSqlite(pack_config) ==
    pack_config.db # None /\ pack_config.db[1].type = "sqlite"

\* Mutant: the pack is recorded before its files are copied.
CopyAfterCommit ==
    /\ pc = "copy"
    /\ Goto("commit")
    /\ UNCHANGED <<args, cache, pack_info, local, staging, disk, outcome, requests>>

\* install.py 99-121: one category of copy_to per step, in the manifest's
\* order; a category whose folder is not in the archive is skipped; a copy
\* may stop with an OSError after any part of its files.  The OSError names
\* the file the failing call was given: one under src for a read, one
\* under dest for mkdir or a write, none for an error of write() itself.
Copy ==
    /\ pc = "copy"
    /\ LET a == staging[1].zip[1]
           cfg == local.pack_config[1]
       IN  IF local.todo = <<>>
           THEN /\ IF IsSqlite(cfg)
                   THEN Goto("migrate")
                   ELSE Goto("commit")
                /\ UNCHANGED <<args, cache, pack_info, local, staging, disk, outcome, requests>>
           ELSE LET folder_type == Head(local.todo)[1]
                    dest == Head(local.todo)[2]
                IN  IF ~SrcExists(a, local.extract_path, folder_type)
                    THEN /\ local' = [local EXCEPT !.todo = Tail(local.todo)]
                         /\ UNCHANGED <<pc, stages, args, cache, pack_info, staging,
                                        disk, outcome, requests>>
                    ELSE \/ /\ workspace' = CopyInto(workspace, dest, a.files, a.bytes)
                            /\ local' = [local EXCEPT !.todo = Tail(local.todo)]
                            /\ UNCHANGED <<pc, stages, args, cache, pack_info,
                                           staging, ledger, store, report,
                                           outcome, requests>>
                         \/ \E part \in (SUBSET a.files) \ {a.files} :
                              /\ workspace' = CopyInto(workspace, dest, part, a.bytes)
                              /\ \E path \in {folder_type, dest, ""} :
                                    Raise("InstallError", path)
                              /\ UNCHANGED <<ledger, store, report>>

\* Mutant: the loop over the scripts ends at the first one that fails.
RECURSIVE migration_loop_break(_, _, _, _)
migration_loop_break(a, extract_path, migrations, failed) ==
    IF migrations = <<>> THEN <<>>
    ELSE LET migration_file == Head(migrations)
         IN  IF extract_path = a.content_at /\ migration_file \in a.scripts
             THEN IF migration_file \in failed
                  THEN <<[script |-> migration_file, ok |-> FALSE]>>
                  ELSE <<[script |-> migration_file, ok |-> TRUE]>>
                       \o migration_loop_break(a, extract_path, Tail(migrations), failed)
             ELSE migration_loop_break(a, extract_path, Tail(migrations), failed)

\* install.py 206-214: the loop over db_config["migrations"], as the list of
\* executescript calls it makes: a script whose file is not under
\* extract_path is passed over, one that raises sqlite3.Error is reported
\* and the loop goes on with the next.
RECURSIVE migration_loop(_, _, _, _)
migration_loop(a, extract_path, migrations, failed) ==
    IF migrations = <<>> THEN <<>>
    ELSE LET migration_file == Head(migrations)
         IN  IF extract_path = a.content_at /\ migration_file \in a.scripts
             THEN <<[script |-> migration_file, ok |-> migration_file \notin failed]>>
                  \o migration_loop(a, extract_path, Tail(migrations), failed)
             ELSE migration_loop(a, extract_path, Tail(migrations), failed)

\* install.py 194-217 run_sqlite_migrations: every listed script whose file
\* is under the effective root is executed; one that fails with sqlite3.Error
\* is reported and the loop goes on.
run_sqlite_migrations(st, a, extract_path, db_config, failed) ==
    LET ran == migration_loop(a, extract_path, db_config.migrations, failed)
    IN  [exists |-> TRUE,
         applied |-> st.applied \cup {ran[i].script : i \in {j \in 1..Len(ran) : ran[j].ok}}]

\* install.py 119-121: the migrations step, `failed` being the scripts on
\* which executescript raises sqlite3.Error.
MigrateWith(failed) ==
    /\ pc = "migrate"
    /\ store' = run_sqlite_migrations(store, staging[1].zip[1], local.extract_path,
                                      local.pack_config[1].db[1], failed)
    /\ Goto("commit")
    /\ UNCHANGED <<args, cache, pack_info, local, staging, ledger,
                   workspace, report, outcome, requests>>

Migrate == \E failed \in SUBSET MigrationFiles : MigrateWith(failed)

\* Mutant: the registry's version is recorded, whatever the manifest says.
InstalledInfoFromRegistry(pack_id, pack_config, version, now) ==
    [name |-> GetOr(pack_config.name, pack_id),
     version |-> version,
     installed_at |-> now]

\* install.py 124-128: the record install_pack hands to mark_installed.
InstalledInfo(pack_id, pack_config, version, now) ==
    [name |-> GetOr(pack_config.name, pack_id),
     version |-> GetOr(pack_config.version, version),
     installed_at |-> now]

\* Mutant: the record is added without replacing the pack's earlier one.
mark_installed_append(file, pack_id, info) ==
    Append(get_installed_packs(file), <<pack_id, info>>)
\* Mutant: an earlier record of the pack is kept as it is.
mark_installed_keep(file, pack_id, info) ==
    IF HasKey(get_installed_packs(file), pack_id) THEN get_installed_packs(file)
    ELSE Append(get_installed_packs(file), <<pack_id, info>>)

\* state.py 27-28 mark_installed: the dict that will be written.
mark_installed(file, pack_id, info) ==
    DictSet(get_installed_packs(file), pack_id, info)

\* state.py 36-38 mark_uninstalled: the dict that will be written.
mark_uninstalled(file, pack_id) ==
    DictDel(get_installed_packs(file), pack_id)

\* install.py 123-128 with state.py 25-32: read the ledger, set the record
\* (TypeError when the ledger file held a list).
Commit ==
    /\ pc = "commit"
    /\ IF ~ReturnsDict(ledger)
       THEN Return("raised", "TypeError") /\ UNCHANGED disk
       ELSE /\ \E now \in 1..MaxTime :
                 LET info == InstalledInfo(args.pack_id, local.pack_config[1],
                                           pack_info[1].latest_version, now)
                 IN  local' = [local EXCEPT
                                 !.info = Some(info),
                                 !.installed = mark_installed(ledger, args.pack_id, info)]
            /\ pc' = "commit_open"
            /\ UNCHANGED <<stages, args, cache, pack_info, staging, disk, outcome,
                           requests>>

\* state.py 32: write_text opens the ledger file for writing.
CommitOpen ==
    /\ pc = "commit_open"
    /\ ledger' = OpenForWrite(ledger)
    /\ pc' = "commit_write"
    /\ UNCHANGED <<stages, args, cache, pack_info, local, staging, workspace, store, report, outcome, requests>>

\* state.py 32: write_text writes the document, or fails with an OSError
\* after a part of it.
CommitWrite ==
    /\ pc = "commit_write"
    /\ LET data == JsonDumps(local.installed)
       IN  \/ /\ ledger' = WriteData(ledger, data)
              /\ Goto("report")
              /\ UNCHANGED <<args, cache, pack_info, local, staging, workspace, store, report, outcome, requests>>
           \/ \E n \in 0..(Len(data) - 1) :
                /\ ledger' = WriteData(ledger, SubSeq(data, 1, n))
                /\ Return("raised", "LedgerError")
                /\ UNCHANGED <<workspace, store, report>>

\* install.py 130-137: the first-run report is written; install_pack
\* returns True.
Report ==
    /\ pc = "report"
    /\ report' = Some(args.pack_id)
    /\ Return("True", "ok")
    /\ UNCHANGED <<ledger, workspace, store>>

\* ------------------------------------------------------- update_single_pack
\* update.py 35-47: the pack must be in the ledger and in the registry.
UpdateSinglePack ==
    /\ pc = "update"
    /\ LET installed == get_installed_packs(ledger)
       IN  IF ~HasKey(installed, args.pack_id)
           THEN Return("None", "NotInstalled") /\ UNCHANGED disk
           ELSE \E served \in Served(world), ok \in BOOLEAN :
                  LET got == fetch_registry(cache, served, ok, requests)
                      info == get_pack_info(got[1], args.pack_id)
                  IN  IF info = None
                      THEN ReturnAfterFetch("None", "NotFound", got) /\ UNCHANGED disk
                      ELSE /\ pc' = "update_decide"
                           /\ cache' = got[2]
                           /\ requests' = got[3]
                           /\ pack_info' = info
                           /\ local' = [local EXCEPT !.installed = installed]
                           /\ UNCHANGED <<stages, args, staging, disk, outcome>>

\* Mutant: the versions are not compared, every update reinstalls.
NeverUpToDate(current_version, latest_version) == FALSE

\* update.py 52: `current_version == latest_version` ends the update.
UpToDate(current_version, latest_version) == current_version = latest_version

\* update.py 49-59: already at the registry's latest_version: return; else
\* install_pack(pack_id, force=True), which resolves the pack again.
UpdateDecide ==
    /\ pc = "update_decide"
    /\ IF UpToDate(Lookup(local.installed, args.pack_id).version,
                   pack_info[1].latest_version)
       THEN Return("None", "UpToDate") /\ UNCHANGED disk
       ELSE /\ Goto("resolve")
            /\ args' = [args EXCEPT !.force = TRUE]
            /\ pack_info' = None
            /\ local' = NoLocal
            /\ UNCHANGED <<cache, staging, disk, outcome, requests>>

\* ------------------------------------------------------------ uninstall_pack
\* uninstall.py 32-37: the folders uninstall_pack removes.
FoldersToRemove(pack_id) ==
    IF pack_id = "p" THEN <<"workflows/p", "rules/p", "assets/p">>
    ELSE <<"workflows/q", "rules/q", "assets/q">>
FolderExists(ws, folder) == folder \in DestDirs /\ ws[folder].exists

\* Mutant: the folders are removed without looking at the ledger or asking.
UninstallUnchecked ==
    /\ pc = "un_check"
    /\ Goto("un_remove")
    /\ local' = [local EXCEPT !.todo = FoldersToRemove(args.pack_id)]
    /\ UNCHANGED <<args, cache, pack_info, staging, disk, outcome, requests>>

\* uninstall.py 18-30: the pack must be in the ledger and the user confirm.
UninstallCheck ==
    /\ pc = "un_check"
    /\ IF ~HasKey(get_installed_packs(ledger), args.pack_id)
       THEN Return("False", "NotInstalled") /\ UNCHANGED disk
       ELSE \/ Return("False", "Cancelled") /\ UNCHANGED disk
            \/ /\ Goto("un_remove")
               /\ local' = [local EXCEPT !.todo = FoldersToRemove(args.pack_id)]
               /\ UNCHANGED <<args, cache, pack_info, staging, disk,
                              outcome, requests>>

\* Mutant: an rmtree that fails ends uninstall_pack with its exception.
UninstallRemoveRaises ==
    /\ pc = "un_remove"
    /\ IF local.todo = <<>>
       THEN /\ Goto("un_mark")
            /\ UNCHANGED <<args, cache, pack_info, local, staging, disk,
                           outcome, requests>>
       ELSE LET folder == Head(local.todo)
            IN  IF ~FolderExists(workspace, folder)
                THEN /\ local' = [local EXCEPT !.todo = Tail(local.todo)]
                     /\ UNCHANGED <<pc, stages, args, cache, pack_info, staging,
                                    disk, outcome, requests>>
                ELSE \/ /\ workspace' = [workspace EXCEPT ![folder] = NoDir]
                        /\ local' = [local EXCEPT !.todo = Tail(local.todo)]
                        /\ UNCHANGED <<pc, stages, args, cache, pack_info, staging,
                                       ledger, store, report, outcome, requests>>
                     \/ \E gone \in SUBSET FileNames :
                          /\ workspace' = [workspace EXCEPT ![folder].files =
                                [f \in FileNames |->
                                    IF f \in gone THEN Absent
                                    ELSE workspace[folder].files[f]]]
                          /\ Return("raised", "RemoveError")
                          /\ UNCHANGED <<ledger, store, report>>

\* uninstall.py 39-46: each existing folder is removed; an rmtree that fails
\* after removing a part of the files is reported and the loop goes on.
UninstallRemove ==
    /\ pc = "un_remove"
    /\ IF local.todo = <<>>
       THEN /\ Goto("un_mark")
            /\ UNCHANGED <<args, cache, pack_info, local, staging, disk,
                           outcome, requests>>
       ELSE LET folder == Head(local.todo)
            IN  /\ local' = [local EXCEPT !.todo = Tail(local.todo)]
                /\ IF ~FolderExists(workspace, folder)
                   THEN UNCHANGED workspace
                   ELSE \/ workspace' = [workspace EXCEPT ![folder] = NoDir]
                        \/ \E gone \in SUBSET FileNames :
                             workspace' = [workspace EXCEPT ![folder].files =
                                 [f \in FileNames |->
                                     IF f \in gone THEN Absent
                                     ELSE workspace[folder].files[f]]]
                /\ UNCHANGED <<pc, stages, args, cache, pack_info, staging,
                               ledger, store, report, outcome, requests>>

\* uninstall.py 48-61 with state.py 34-40: the record is deleted and the
\* ledger rewritten when the pack is (still) in it.
UninstallMark ==
    /\ pc = "un_mark"
    /\ IF HasKey(get_installed_packs(ledger), args.pack_id)
       THEN /\ local' = [local EXCEPT !.installed =
                            mark_uninstalled(ledger, args.pack_id)]
            /\ pc' = "un_open"
            /\ UNCHANGED <<stages, args, cache, pack_info, staging, disk, outcome, requests>>
       ELSE Return("True", "ok") /\ UNCHANGED disk

UninstallOpen ==
    /\ pc = "un_open"
    /\ ledger' = OpenForWrite(ledger)
    /\ pc' = "un_write"
    /\ UNCHANGED <<stages, args, cache, pack_info, local, staging, workspace, store, report, outcome, requests>>

UninstallWrite ==
    /\ pc = "un_write"
    /\ LET data == JsonDumps(local.installed)
       IN  \/ /\ ledger' = WriteData(ledger, data)
              /\ Return("True", "ok")
           \/ \E n \in 0..(Len(data) - 1) :
                /\ ledger' = WriteData(ledger, SubSeq(data, 1, n))
                /\ Return("raised", "LedgerError")
    /\ UNCHANGED <<workspace, store, report>>

\* ----------------------------------------------------------- specification
Next ==
    \/ CliInstall /\ UNCHANGED <<world, aux>>
    \/ CliUpdate /\ UNCHANGED <<world, aux>>
    \/ CliUninstall /\ UNCHANGED <<world, aux>>
    \/ Kill /\ UNCHANGED <<world, aux>>
    \/ ProcessExit /\ UNCHANGED <<world, aux>>
    \/ Resolve /\ UNCHANGED <<world, aux>>
    \/ MkTemp /\ UNCHANGED <<world, aux>>
    \/ Download /\ UNCHANGED <<world, aux>>
    \/ Verify /\ UNCHANGED <<world, aux>>
    \/ Extract /\ UNCHANGED <<world, aux>>
    \/ FindManifest /\ UNCHANGED <<world, aux>>
    \/ Copy /\ UNCHANGED <<world, aux>>
    \/ Migrate /\ UNCHANGED <<world, aux>>
    \/ Commit /\ UNCHANGED <<world, aux>>
    \/ CommitOpen /\ UNCHANGED <<world, aux>>
    \/ CommitWrite /\ UNCHANGED <<world, aux>>
    \/ Report /\ UNCHANGED <<world, aux>>
    \/ UpdateSinglePack /\ UNCHANGED <<world, aux>>
    \/ UpdateDecide /\ UNCHANGED <<world, aux>>
    \/ UninstallCheck /\ UNCHANGED <<world, aux>>
    \/ UninstallRemove /\ UNCHANGED <<world, aux>>
    \/ UninstallMark /\ UNCHANGED <<world, aux>>
    \/ UninstallOpen /\ UNCHANGED <<world, aux>>
    \/ UninstallWrite /\ UNCHANGED <<world, aux>>

Spec == Init /\ [][Next]_vars

\* ------------------------------------------------------------------ claims
Range(seq) == {seq[i] : i \in 1..Len(seq)}
\* The stages before anything of the pack is placed in the workspace.
EarlyStages == {"update", "resolve", "mktemp", "download", "verify", "extract",
                "manifest"}
EarlyFailures == {"NotFound", "NoRelease", "FetchError", "DigestMismatch",
                  "Corrupt", "ManifestMissing"}
Installing == args.op \in {"install", "update"}

\* C1: digest gate.  When the registry's sha256 is non-empty and differs from
\* the SHA-256 hex digest of the downloaded bytes, the run ends in failure at
\* the verification, the extractor has not been and is not invoked, and
\* nothing on disk (workspace, store, ledger, report) changes.
C1_DigestGate ==
    [][(/\ pc = "verify"
        /\ Truthy(pack_info[1].sha256)
        /\ pack_info[1].sha256[1] # Sha256Hex(staging[1].zip[1].bytes))
       => /\ ~staging[1].extracted
          /\ "extract" \notin Range(stages)
          /\ pc' \in {"done", "idle"}
          /\ pc' = "done" => outcome'.result = "False"
          /\ "extract" \notin Range(stages')
          /\ UNCHANGED disk]_vars
C1_Witness == pc = "done" /\ outcome.reason = "DigestMismatch"

\* C2: ledger commit is last.  An install run changes the ledger file only
\* in mark_installed, after resolve, download, digest check, extraction,
\* manifest discovery, every category copy and (when declared) the
\* migrations; every other step of the run, a failure or a kill included,
\* leaves the ledger as it was.
PipelineComplete ==
    /\ \E pre \in {<<>>, <<"update">>}, mig \in {<<>>, <<"migrate">>} :
         stages = pre \o <<"resolve", "mktemp", "download", "verify", "extract",
                           "manifest", "copy">> \o mig \o <<"commit">>
    /\ staging # None /\ staging[1].extracted
    /\ local.todo = <<>>
    /\ (local.pack_config[1].db # None /\ local.pack_config[1].db[1].type = "sqlite")
          => "migrate" \in Range(stages)
C2_LedgerCommitLast ==
    [][(Installing /\ ledger' # ledger)
       => pc \in {"commit_open", "commit_write"} /\ PipelineComplete]_vars
C2_Witness ==
    /\ pc = "report"
    /\ HasKey(get_installed_packs(ledger), args.pack_id)
    /\ "migrate" \in Range(stages)

\* C3: staging cleanup.  Once install_pack has returned or raised, whatever
\* the outcome, the staging directory of the run no longer exists.
C3_StagingCleanup == pc = "done" => staging = None
C3_Witness ==
    /\ pc = "done"
    /\ "mktemp" \in Range(stages)
    /\ outcome.result = "raised"

\* C4: no partial state change on early failures.  No step of the stages up
\* to manifest discovery changes the workspace, the store, the ledger or the
\* report, and a run that ends NotFound, with a download error, a digest
\* mismatch, a corrupt archive or a missing manifest has entered no other
\* stage.
C4_NoEarlyChange ==
    /\ [][(pc \in EarlyStages \cup {"update_decide"}) => (disk' = disk)]_vars
    /\ []((pc = "done" /\ outcome.reason \in EarlyFailures)
            => Range(stages) \subseteq EarlyStages)
C4_Witness ==
    /\ pc = "done"
    /\ outcome.reason = "ManifestMissing"
    /\ ledger.exists
    /\ workspace["workflows/p"].exists

\* C5: optional verification.  With no expected digest (sha256 absent or
\* empty) the verification never fails: the run goes on to the extraction,
\* whatever the artifact.
C5_OptionalVerification ==
    [][(pc = "verify" /\ ~Truthy(pack_info[1].sha256))
       => pc' \in {"extract", "idle"}]_vars
C5_Witness ==
    /\ pc = "extract"
    /\ pack_info[1].sha256 = Some(<<>>)
    /\ staging[1].zip[1] = ArtCorrupt

\* C6: case-insensitive digest comparison.  An expected digest that equals
\* the artifact's SHA-256 hex digest up to the case of the hex letters is
\* accepted: the run goes on to the extraction.
C6_CaseInsensitive ==
    [][(/\ pc = "verify"
        /\ Truthy(pack_info[1].sha256)
        /\ Lower(pack_info[1].sha256[1])
             = Lower(Sha256Hex(staging[1].zip[1].bytes)))
       => pc' \in {"extract", "idle"}]_vars

\* C7: ledger atomic write.  While mark_installed or mark_uninstalled is
\* writing, the file holds the previous document (the one the new document
\* was computed from) or the new one, and no record of another pack is
\* missing from it.
C7_AtomicLedgerWrite ==
    /\ pc = "commit_write"
         => /\ \/ get_installed_packs(ledger) = local.installed
               \/ DictSet(get_installed_packs(ledger), args.pack_id,
                          local.info[1]) = local.installed
            /\ \A k \in Keys(local.installed) \ {args.pack_id} :
                  HasKey(get_installed_packs(ledger), k)
    /\ pc = "un_write"
         => /\ \/ get_installed_packs(ledger) = local.installed
               \/ DictDel(get_installed_packs(ledger), args.pack_id)
                    = local.installed
            /\ \A k \in Keys(local.installed) :
                  HasKey(get_installed_packs(ledger), k)

\* C8: no duplicate ledger entries, idempotent reinstall.  The ledger file
\* never holds two records of one pack id; an install that returns True,
\* with or without force and whether or not the pack was recorded before,
\* has run the whole pipeline and leaves exactly one record of the pack.
ItemsOf(file, pack_id) ==
    {i \in 1..Len(file.toks) :
        file.toks[i][1] = "item" /\ file.toks[i][2] = pack_id}
C8_NoDuplicates ==
    /\ \A k \in PackIds : Cardinality(ItemsOf(ledger, k)) <= 1
    /\ (pc = "done" /\ args.op = "install" /\ outcome.result = "True")
         => /\ \E mig \in {<<>>, <<"migrate">>} :
                 stages = <<"resolve", "mktemp", "download", "verify", "extract",
                            "manifest", "copy">> \o mig \o <<"commit", "report">>
            /\ Cardinality(ItemsOf(ledger, args.pack_id)) = 1
\* A second install without force has run the pipeline up to the commit.
C8_Witness ==
    /\ pc = "commit_write"
    /\ args.op = "install" /\ ~args.force
    /\ HasKey(local.installed, args.pack_id)
    /\ Len(local.installed) = 2
    /\ IndexOf(local.installed, args.pack_id) = 1
    /\ "download" \in Range(stages)

C10_UpdateDecision ==
    [][pc = "update_decide"
       => LET recorded == Lookup(get_installed_packs(ledger), args.pack_id).version
              latest == pack_info[1].latest_version
          IN  /\ recorded # latest
                   => \/ pc' = "resolve" /\ args'.force /\ UNCHANGED disk
                      \/ pc' = "idle"
              /\ recorded = latest
                   => /\ pc' \in {"done", "idle"}
                      /\ Range(stages') \subseteq {"update"}
                      /\ UNCHANGED disk]_vars
C10_Witness == pc = "done" /\ outcome.reason = "UpToDate"

\* C11: manifest discovery.  With pack.json at the extraction root the
\* effective root is the extraction root, also when a subdirectory has one
\* too; otherwise, with pack.json in an immediate subdirectory X, it is X;
\* with pack.json in neither place (deeper ones are not searched) the
\* install fails for the missing manifest, and nothing is copied or recorded.
C11_ManifestDiscovery ==
    [][pc = "manifest"
       => LET at == staging[1].zip[1].pack_json
              nested == {d \in Subdirs(".") : d \in at}
          IN  \/ pc' = "idle"
              \/ /\ "." \in at
                 /\ pc' = "copy" /\ local'.extract_path = "."
              \/ /\ "." \notin at /\ nested # {}
                 /\ pc' = "copy" /\ local'.extract_path \in nested
              \/ /\ "." \notin at /\ nested = {}
                 /\ pc' = "done"
                 /\ outcome'.result = "False"
                 /\ outcome'.reason = "ManifestMissing"
                 /\ "copy" \notin Range(stages')
                 /\ UNCHANGED disk]_vars
C11_Witness ==
    /\ pc = "copy"
    /\ local.extract_path = "X"
    /\ staging[1].zip[1].pack_json = {"X"}

\* C12: path traversal rejection.  Extracting an archive with a member whose
\* name points outside the extraction directory ends the install with a
\* path-traversal extraction error; nothing is copied or recorded.
C12_PathTraversalRejected ==
    [][(pc = "extract" /\ staging[1].zip[1].outside # {})
       => \/ pc' = "idle"
          \/ /\ pc' = "done"
             /\ outcome'.reason = "PathTraversal"
             /\ UNCHANGED disk]_vars

\* C13: skip-missing-category.  A copy_to category whose folder is not under
\* the effective root is passed over: the step changes nothing in the
\* workspace (its destination directory is not created), raises nothing and
\* leaves the remaining categories to be copied; a run that has passed over
\* a category and then written the ledger has recorded the pack.
Skipped(a, extract_path, todo) ==
    todo # <<>> /\ ~(extract_path = a.content_at /\ Head(todo)[1] \in a.folders)
C13_SkipMissingCategory ==
    /\ [][(pc = "copy" /\ Skipped(staging[1].zip[1], local.extract_path, local.todo))
            => \/ pc' = "idle"
               \/ /\ pc' = "copy"
                  /\ local'.todo = Tail(local.todo)
                  /\ UNCHANGED disk]_vars
    /\ []((pc = "report" /\ staging[1].zip[1].folders = {})
            => /\ HasKey(get_installed_packs(ledger), args.pack_id)
               /\ "commit" \in Range(stages))
C13_Witness ==
    /\ pc = "report"
    /\ staging[1].zip[1] = ArtTraversal
    /\ ~workspace["workflows/p"].exists
    /\ HasKey(get_installed_packs(ledger), "p")

\* C14: exit status.  A process whose pipeline failed (pack not found, no
\* release, download error, digest mismatch, corrupt archive, missing
\* manifest, copy or ledger error, pack not installed) exits with a non-zero
\* status; one that exits with status 0 has succeeded.
PipelineFailures ==
    {"NotFound", "NoRelease", "FetchError", "DigestMismatch", "Corrupt",
     "ManifestMissing", "InstallError", "LedgerError", "NotInstalled"}
C14_ExitStatus ==
    pc = "done"
      => /\ outcome.reason \in PipelineFailures => outcome.exit # 0
         /\ outcome.exit = 0 => outcome.reason \notin PipelineFailures

\* C15: ledger read tolerance.  With the ledger file missing, or holding
\* anything but a ledger document (a JSON object), get_installed_packs
\* returns the empty mapping and raises nothing, and the mark_installed that
\* follows goes on to write a document holding exactly the one new record.
LedgerDocument(file) ==
    /\ file.exists
    /\ Len(file.toks) >= 2
    /\ file.toks[1] = <<"{">>
    /\ file.toks[Len(file.toks)] = <<"}">>
C15_ReadTolerance ==
    [][(pc = "commit" /\ ~LedgerDocument(ledger))
       => /\ get_installed_packs(ledger) = <<>>
          /\ \/ pc' = "idle"
             \/ /\ pc' = "commit_open"
                /\ Len(local'.installed) = 1
                /\ local'.installed[1] = <<args.pack_id, local'.info[1]>>]_vars

Listed(doc, pack_id) == \E i \in 1..Len(doc) : doc[i].id = pack_id
C18_RecordedIdentity ==
    [][(pc = "commit_write" /\ pc' = "report")
       => LET manifest == staging[1].zip[1].manifest
              installed == get_installed_packs(ledger')
          IN  /\ HasKey(installed, args.pack_id)
              /\ Keys(installed) \subseteq PackIds
              /\ Keys(installed) = Keys(local.installed)
              /\ Lookup(installed, args.pack_id).version =
                    (IF manifest.version # None THEN manifest.version[1]
                     ELSE pack_info[1].latest_version)
              /\ Lookup(installed, args.pack_id).name =
                    (IF manifest.name # None THEN manifest.name[1]
                     ELSE args.pack_id)]_vars
\* The manifest's version is recorded although the registry lists another.
C18_Witness ==
    /\ pc = "report"
    /\ staging[1].zip[1].manifest.version = Some("1.0.0")
    /\ pack_info[1].latest_version = "2.0.0"
    /\ Lookup(get_installed_packs(ledger), args.pack_id).version = "1.0.0"
    /\ Lookup(get_installed_packs(ledger), args.pack_id).name = "Gold"

\* C19: pipeline order.  The stages an install run has entered are an
\* initial part of resolve, (staging and) download, verify, extract (with
\* manifest discovery), copy, migrate, commit, report, each entered once and
\* in this order; migrate is entered exactly when the manifest's db type is
\* "sqlite", and with no category left to copy; a run that has ended enters
\* no further stage and is not started again.
IsPrefix(s, t) == Len(s) <= Len(t) /\ s = SubSeq(t, 1, Len(s))
StageOrder(mig) ==
    <<"resolve", "mktemp", "download", "verify", "extract", "manifest", "copy">>
        \o mig \o <<"commit", "report">>
DeclaresSqlite(manifest) == manifest.db # None /\ manifest.db[1].type = "sqlite"
C19_PipelineOrder ==
    /\ [](Installing
            => /\ \E pre \in {<<>>, <<"update">>}, mig \in {<<>>, <<"migrate">>} :
                    IsPrefix(stages, pre \o StageOrder(mig))
               /\ pc = "migrate" => local.todo = <<>>
               /\ pc \in {"migrate", "commit", "commit_open", "commit_write", "report"}
                    => ("migrate" \in Range(stages)
                          <=> DeclaresSqlite(staging[1].zip[1].manifest)))
    /\ [][/\ pc = "done" => (pc' = "idle" /\ UNCHANGED disk)
          /\ (pc \notin {"idle", "done"} /\ pc' # "idle") => IsPrefix(stages, stages')
          /\ (pc # "idle" /\ pc' = "done" /\ outcome'.reason # "ok")
               => stages' = stages]_vars
\* A manifest that declares a db of another type: committed without migrate.
C19_Witness ==
    /\ pc = "commit"
    /\ staging[1].zip[1].manifest.db # None
    /\ ~DeclaresSqlite(staging[1].zip[1].manifest)
    /\ "migrate" \notin Range(stages)

NoMigrations ==
    [spec |-> "SpecMigrations", declared |-> <<>>, present |-> {},
     failed |-> {}, attempts |-> <<>>]
InitMigrations ==
    /\ pc = "idle"
    /\ args = NoArgs
    /\ cache = None
    /\ pack_info = None
    /\ local = NoLocal
    /\ staging = None
    /\ ledger = NoFile
    /\ workspace = UserWorkspace
    /\ store = [exists |-> FALSE, applied |-> {}]
    /\ report = None
    /\ outcome = NoOutcome
    /\ stages = <<>>
    /\ requests = <<>>
    /\ world = [docs |-> "p", arts |-> "migrations"]
    /\ aux = NoMigrations
MigrateLogged ==
    \E failed \in SUBSET MigrationFiles :
        /\ MigrateWith(failed)
        /\ LET a == staging[1].zip[1]
               declared == local.pack_config[1].db[1].migrations
           IN  aux' = [aux EXCEPT
                         !.declared = declared,
                         !.present = IF local.extract_path = a.content_at
                                     THEN a.scripts ELSE {},
                         !.failed = failed,
                         !.attempts = migration_loop(a, local.extract_path,
                                                     declared, failed)]
        /\ UNCHANGED world
NextMigrations ==
    \/ CliInstall /\ aux' = NoMigrations /\ UNCHANGED world
    \/ ProcessExit /\ UNCHANGED <<world, aux>>
    \/ Resolve /\ UNCHANGED <<world, aux>>
    \/ MkTemp /\ UNCHANGED <<world, aux>>
    \/ Download /\ UNCHANGED <<world, aux>>
    \/ Verify /\ UNCHANGED <<world, aux>>
    \/ Extract /\ UNCHANGED <<world, aux>>
    \/ FindManifest /\ UNCHANGED <<world, aux>>
    \/ Copy /\ UNCHANGED <<world, aux>>
    \/ MigrateLogged
    \/ Commit /\ UNCHANGED <<world, aux>>
    \/ CommitOpen /\ UNCHANGED <<world, aux>>
    \/ CommitWrite /\ UNCHANGED <<world, aux>>
    \/ Report /\ UNCHANGED <<world, aux>>
SpecMigrations == InitMigrations /\ [][NextMigrations]_vars

\* C21 (best-effort migrations): whatever list of scripts the manifest
\* declares and whichever of them fail with a store error, the migrations
\* step calls executescript once for each entry of the list whose file is
\* under the effective root, in the order of the list, passing over the
\* entries whose file is missing and going on after a failure; the scripts
\* that did not fail are applied to the store; the step hands over to the
\* ledger commit without an outcome, and an install that ran the step and
\* whose ledger write went through ends with the pack recorded and success
\* reported.
C21_BestEffortMigrations ==
    /\ [][pc = "migrate" =>
            LET scripts == [i \in 1..Len(aux'.attempts) |-> aux'.attempts[i].script]
            IN  /\ scripts = SelectSeq(aux'.declared,
                                       LAMBDA m : m \in aux'.present)
                /\ \A i \in 1..Len(aux'.attempts) :
                      aux'.attempts[i].ok <=> (scripts[i] \notin aux'.failed)
                /\ store'.exists
                /\ store'.applied =
                      store.applied \cup ((Range(aux'.declared) \cap aux'.present)
                                           \ aux'.failed)
                /\ pc' = "commit"
                /\ outcome' = outcome
                /\ <<ledger', workspace', report'>> = <<ledger, workspace, report>>]_vars
    /\ [](pc = "done" /\ "migrate" \in Range(stages)
             /\ outcome.reason \notin {"TypeError", "LedgerError"}
          => /\ outcome.result = "True"
             /\ HasKey(get_installed_packs(ledger), args.pack_id)
             /\ report = Some(args.pack_id))
\* An install ended in success after a migrations step whose first script
\* failed, whose second was missing from the archive and whose third ran.
C21_Witness ==
    /\ pc = "done"
    /\ outcome.result = "True"
    /\ aux.declared = <<"m1", "m2", "m1">>
    /\ aux.present = {"m1"}
    /\ aux.failed = {"m1"}
    /\ Len(aux.attempts) = 2
    /\ HasKey(get_installed_packs(ledger), "p")

\* ------------------------------------------------- C22: a failing category
\* The step in which the copy of a category raises, and what it leaves: the
\* other destinations as they were (those of the categories copied before
\* included), in its own destination only files of the pack added, and
\* neither the migrations nor the ledger commit entered.
CopyFails == pc = "copy" /\ pc' = "done"
NoRollback ==
    LET dest == Head(local.todo)[2]
    IN  /\ \A d \in DestDirs \ {dest} : workspace'[d] = workspace[d]
        /\ \A f \in FileNames :
              workspace'[dest].files[f] \in
                  {workspace[dest].files[f], staging[1].zip[1].bytes}
        /\ <<ledger', store', report'>> = <<ledger, store, report>>
        /\ {"migrate", "commit"} \cap Range(stages') = {}
        /\ outcome'.result = "raised"
        /\ outcome'.reason = "InstallError"
C22_NoRollback == [][CopyFails => NoRollback]_vars

\* C22 (non-transactional layout install): when the copy of category N
\* fails, what the categories before N placed stays, the categories after N
\* and the migrations are not attempted, the ledger is not written, and the
\* failure is reported with the category that failed.
C22_NonTransactional ==
    [][CopyFails => NoRollback /\ outcome'.path = Head(local.todo)[1]]_vars

\* ------------------------------------------------ C23: install with --force
\* Disks the program leaves behind, from which the later specifications
\* start: nothing installed; p installed from ArtGood; p installed from
\* ArtNested (its store migrated); an installed.json holding `[]`.
LedgerOf(d) == [exists |-> TRUE, toks |-> JsonDumps(d)]
WorkspaceGood ==
    CopyInto(UserWorkspace, "workflows/p", ArtGood.files, ArtGood.bytes)
WorkspaceNested ==
    CopyInto(CopyInto(UserWorkspace, "ext", ArtNested.files, ArtNested.bytes),
             "workflows/p", ArtNested.files, ArtNested.bytes)
DiskFresh ==
    <<NoFile, UserWorkspace, [exists |-> FALSE, applied |-> {}], None>>
DiskGood ==
    <<LedgerOf(<< <<"p", InstalledInfo("p", ManifestFull, "1.0.0", 1)>> >>),
      WorkspaceGood, [exists |-> FALSE, applied |-> {}], Some("p")>>
DiskNested ==
    <<LedgerOf(<< <<"p", InstalledInfo("p", ManifestBare, "2.0.0", 1)>> >>),
      WorkspaceNested, [exists |-> TRUE, applied |-> {"m1"}], Some("p")>>
DiskList ==
    <<ListFile, UserWorkspace, [exists |-> FALSE, applied |-> {}], None>>
StartDisks == {DiskFresh, DiskGood, DiskNested, DiskList}
OnDisk(d) ==
    /\ ledger = d[1]
    /\ workspace = d[2]
    /\ store = d[3]
    /\ report = d[4]
PutBack(d) ==
    /\ ledger' = d[1]
    /\ workspace' = d[2]
    /\ store' = d[3]
    /\ report' = d[4]

\* A specification that runs install_pack twice on the same disk, with
\* --force the second time if and only if not the first: aux keeps the disk
\* the first run started on and what it saw after each of its steps; the
\* disk is then put back and the second run may only take steps that show
\* the same.
Observed ==
    <<pc, stages, cache, pack_info, local, staging, ledger, workspace, store,
      report, outcome, requests>>
InitForce ==
    /\ pc = "idle"
    /\ args = NoArgs
    /\ cache = None
    /\ pack_info = None
    /\ local = NoLocal
    /\ staging = None
    /\ \E d \in StartDisks :
         /\ OnDisk(d)
         /\ aux = [spec |-> "SpecForce", run |-> 0, start |-> d, tape |-> <<>>,
                   pos |-> 0]
    /\ outcome = NoOutcome
    /\ stages = <<>>
    /\ requests = <<>>
    /\ world = AnyWorld
InstallStep ==
    \/ Resolve
    \/ MkTemp
    \/ Download
    \/ Verify
    \/ Extract
    \/ FindManifest
    \/ Copy
    \/ Migrate
    \/ Commit
    \/ CommitOpen
    \/ CommitWrite
    \/ Report
FirstStart ==
    /\ aux.run = 0
    /\ CliInstall
    /\ aux' = [aux EXCEPT !.run = 1]
    /\ UNCHANGED world
FirstRun ==
    /\ aux.run = 1
    /\ InstallStep
    /\ aux' = [aux EXCEPT !.tape = Append(@, Observed')]
    /\ UNCHANGED world
SecondStart ==
    /\ aux.run = 1
    /\ pc = "done"
    /\ pc' = "resolve"
    /\ stages' = <<"resolve">>
    /\ args' = [args EXCEPT !.force = ~args.force]
    /\ outcome' = NoOutcome
    /\ cache' = None
    /\ requests' = <<>>
    /\ PutBack(aux.start)
    /\ aux' = [aux EXCEPT !.run = 2]
    /\ UNCHANGED <<pack_info, local, staging, world>>
SecondRun ==
    /\ aux.run = 2
    /\ aux.pos < Len(aux.tape)
    /\ InstallStep
    /\ Observed' = aux.tape[aux.pos + 1]
    /\ aux' = [aux EXCEPT !.pos = @ + 1]
    /\ UNCHANGED world
NextForce ==
    \/ FirstStart
    \/ FirstRun
    \/ SecondStart
    \/ SecondRun
SpecForce == InitForce /\ [][NextForce]_vars

\* C23 (force has no effect): from every starting disk, for every registry
\* document, artifact, failure and clock reading the first run met, the run
\* with the other value of --force can take the same step at every point:
\* it enters the same stages, with the same process state, the same
\* workspace, store, ledger and report, and ends in the same outcome.
C23_ForceHasNoEffect ==
    /\ aux.run = 2 /\ aux.pos < Len(aux.tape) => ENABLED SecondRun
    /\ aux.run = 2 /\ aux.pos = Len(aux.tape) =>
          /\ pc = "done"
          /\ Observed = aux.tape[aux.pos]
\* The run without --force has reinstalled a pack that was in the ledger,
\* step for step like the run with --force before it.
C23_Witness ==
    /\ aux.run = 2
    /\ aux.pos = Len(aux.tape)
    /\ pc = "done"
    /\ ~args.force
    /\ args.pack_id = "p"
    /\ HasKey(get_installed_packs(aux.start[1]), "p")
    /\ outcome.result = "True"
    /\ "commit" \in Range(stages)

\* ---------------------------------------------------- C24: merge-only copy
\* C24 (merge-only copy): no step of an install or update run deletes a
\* file or a directory of a destination; the only files a step changes are
\* those of the destination of the category being copied that the category
\* folder holds too, and they then hold the pack's content; when the copy
\* of the category completes all of them do.
C24_MergeOnlyCopy ==
    [][args.op \in {"install", "update"} =>
         /\ \A d \in DestDirs :
               /\ workspace[d].exists => workspace'[d].exists
               /\ \A f \in FileNames :
                     /\ workspace[d].files[f] # Absent =>
                           workspace'[d].files[f] # Absent
                     /\ workspace'[d].files[f] # workspace[d].files[f] =>
                           /\ pc = "copy"
                           /\ local.todo # <<>>
                           /\ d = Head(local.todo)[2]
                           /\ f \in staging[1].zip[1].files
                           /\ workspace'[d].files[f] = staging[1].zip[1].bytes
         /\ (/\ pc = "copy" /\ pc' = "copy"
             /\ SrcExists(staging[1].zip[1], local.extract_path,
                          Head(local.todo)[1]))
            => \A f \in staging[1].zip[1].files :
                 workspace'[Head(local.todo)[2]].files[f] = staging[1].zip[1].bytes]_vars
\* An install of ArtGood over files ArtNested had placed has ended: a holds
\* the new content and b, which only the earlier archive shipped, is still
\* there; in the other destination the earlier install had overwritten the
\* user's b and added a.
C24_Witness ==
    /\ pc = "done"
    /\ outcome.result = "True"
    /\ workspace["workflows/p"].files["a"] = ArtGood.bytes
    /\ workspace["workflows/p"].files["b"] = ArtNested.bytes
    /\ workspace["ext"].files["b"] = ArtNested.bytes
    /\ workspace["ext"].files["a"] = ArtNested.bytes

\* ---------------------------------------------------- C25: repeated update
\* A specification of update commands against a registry that does not
\* change: it lists p at 1.0.0 or at 2.0.0 for the whole behaviour, and p is
\* installed at the start.  aux.updated is the pack of the last command when
\* that was an update which ran install_pack to its end, else "".
InitUpdate ==
    /\ pc = "idle"
    /\ args = NoArgs
    /\ cache = None
    /\ pack_info = None
    /\ local = NoLocal
    /\ staging = None
    /\ \E d \in {DiskGood, DiskNested} : OnDisk(d)
    /\ outcome = NoOutcome
    /\ stages = <<>>
    /\ requests = <<>>
    /\ world \in {[docs |-> "p", arts |-> "any"], [docs |-> "p2", arts |-> "any"]}
    /\ aux = [spec |-> "SpecUpdate", updated |-> ""]
UpdateExit ==
    /\ ProcessExit
    /\ aux' = [aux EXCEPT !.updated =
                  IF args.op = "update" /\ outcome.result = "True"
                  THEN args.pack_id ELSE ""]
    /\ UNCHANGED world
NextUpdate ==
    \/ CliUpdate /\ UNCHANGED <<world, aux>>
    \/ UpdateExit
    \/ UpdateSinglePack /\ UNCHANGED <<world, aux>>
    \/ UpdateDecide /\ UNCHANGED <<world, aux>>
    \/ Resolve /\ UNCHANGED <<world, aux>>
    \/ MkTemp /\ UNCHANGED <<world, aux>>
    \/ Download /\ UNCHANGED <<world, aux>>
    \/ Verify /\ UNCHANGED <<world, aux>>
    \/ Extract /\ UNCHANGED <<world, aux>>
    \/ FindManifest /\ UNCHANGED <<world, aux>>
    \/ Copy /\ UNCHANGED <<world, aux>>
    \/ Migrate /\ UNCHANGED <<world, aux>>
    \/ Commit /\ UNCHANGED <<world, aux>>
    \/ CommitOpen /\ UNCHANGED <<world, aux>>
    \/ CommitWrite /\ UNCHANGED <<world, aux>>
    \/ Report /\ UNCHANGED <<world, aux>>
SpecUpdate == InitUpdate /\ [][NextUpdate]_vars

\* C25 (update converges): when the command before was an update of P that
\* ran the install pipeline successfully and the registry has not changed,
\* an update of P that finds P in the registry ends there, reporting that P
\* is up to date, without a further request.
C25_UpdateConverges ==
    [][pc = "update_decide" /\ aux.updated = args.pack_id =>
         /\ pc' = "done"
         /\ outcome'.reason = "UpToDate"
         /\ requests' = requests]_vars

\* --------------------------------------- C26: install, then uninstall
\* A specification of install and uninstall commands on a fresh disk, the
\* registry listing p.  aux
\* keeps the files the copy loop of the running install has written
\* (copied), the pack whose install was the last command to end in success
\* with the files it had written (installed, placed), and whether every
\* rmtree of the running uninstall removed its folder (removed).
InitRoundTrip ==
    /\ pc = "idle"
    /\ args = NoArgs
    /\ cache = None
    /\ pack_info = None
    /\ local = NoLocal
    /\ staging = None
    /\ OnDisk(DiskFresh)
    /\ outcome = NoOutcome
    /\ stages = <<>>
    /\ requests = <<>>
    /\ world = [docs |-> "p", arts |-> "any"]
    /\ aux = [spec |-> "SpecRoundTrip", copied |-> {}, installed |-> "",
              placed |-> {}, removed |-> TRUE]
CopyLogged ==
    /\ Copy
    /\ aux' = [aux EXCEPT !.copied =
                  IF local.todo # <<>>
                     /\ SrcExists(staging[1].zip[1], local.extract_path,
                                  Head(local.todo)[1])
                  THEN @ \cup {<<Head(local.todo)[2], f>> :
                                  f \in {g \in staging[1].zip[1].files :
                                           workspace'[Head(local.todo)[2]].files[g]
                                             = staging[1].zip[1].bytes}}
                  ELSE @]
    /\ UNCHANGED world
UninstallRemoveLogged ==
    /\ UninstallRemove
    /\ aux' = [aux EXCEPT !.removed =
                  /\ @
                  /\ (local.todo # <<>> /\ FolderExists(workspace, Head(local.todo)))
                       => workspace'[Head(local.todo)] = NoDir]
    /\ UNCHANGED world
RoundTripExit ==
    /\ ProcessExit
    /\ aux' = IF args.op = "install" /\ outcome.result = "True"
              THEN [aux EXCEPT !.installed = args.pack_id, !.placed = aux.copied]
              ELSE [aux EXCEPT !.installed = "", !.placed = {}]
    /\ UNCHANGED world
NextRoundTrip ==
    \/ CliInstall /\ aux' = [aux EXCEPT !.copied = {}] /\ UNCHANGED world
    \/ CliUninstall /\ aux' = [aux EXCEPT !.removed = TRUE] /\ UNCHANGED world
    \/ RoundTripExit
    \/ Resolve /\ UNCHANGED <<world, aux>>
    \/ MkTemp /\ UNCHANGED <<world, aux>>
    \/ Download /\ UNCHANGED <<world, aux>>
    \/ Verify /\ UNCHANGED <<world, aux>>
    \/ Extract /\ UNCHANGED <<world, aux>>
    \/ FindManifest /\ UNCHANGED <<world, aux>>
    \/ CopyLogged
    \/ Migrate /\ UNCHANGED <<world, aux>>
    \/ Commit /\ UNCHANGED <<world, aux>>
    \/ CommitOpen /\ UNCHANGED <<world, aux>>
    \/ CommitWrite /\ UNCHANGED <<world, aux>>
    \/ Report /\ UNCHANGED <<world, aux>>
    \/ UninstallCheck /\ UNCHANGED <<world, aux>>
    \/ UninstallRemoveLogged
    \/ UninstallMark /\ UNCHANGED <<world, aux>>
    \/ UninstallOpen /\ UNCHANGED <<world, aux>>
    \/ UninstallWrite /\ UNCHANGED <<world, aux>>
SpecRoundTrip == InitRoundTrip /\ [][NextRoundTrip]_vars

\* C26 (install/uninstall round trip): when a successful install of P is
\* followed by a confirmed uninstall of P that ends in success and in which
\* every folder removal succeeded, none of the files the install had placed
\* is left in the workspace.
C26_RoundTrip ==
    (/\ pc = "done"
     /\ args.op = "uninstall"
     /\ args.pack_id = aux.installed
     /\ outcome.result = "True"
     /\ aux.removed)
    => \A df \in aux.placed : workspace[df[1]].files[df[2]] = Absent

\* ------------------------------------------- C27: two processes, one ledger
\* A specification of two CLI processes that are both inside state.py: the
\* first in mark_installed, the second in mark_installed or mark_uninstalled
\* for another pack.  aux.procs holds for each its call, its position (read,
\* open, write, done) and its local `installed`; the ledger file is shared
\* and everything else stands still.
Procs == {1, 2}
ConcurrentLedgers ==
    {NoFile,
     LedgerOf(<< <<"p", InstalledInfo("p", ManifestFull, "1.0.0", 1)>> >>),
     LedgerOf(<< <<"q", InstalledInfo("q", ManifestFull, "1.0.0", 1)>> >>),
     LedgerOf(<< <<"p", InstalledInfo("p", ManifestFull, "1.0.0", 1)>>,
                 <<"q", InstalledInfo("q", ManifestFull, "1.0.0", 1)>> >>)}
StateCall(op, pack_id, now) ==
    [op |-> op, pack_id |-> pack_id,
     info |-> InstalledInfo(pack_id, ManifestBare, "2.0.0", now),
     at |-> "read", installed |-> <<>>]
\* write() of a process on the file as the processes left it: the bytes from
\* offset 0, over what is there.
WriteOver(file, data) ==
    [exists |-> TRUE,
     toks |-> data \o SubSeq(file.toks, Len(data) + 1, Len(file.toks))]
InitConcurrent ==
    /\ pc = "idle"
    /\ args = NoArgs
    /\ cache = None
    /\ pack_info = None
    /\ local = NoLocal
    /\ staging = None
    /\ ledger \in ConcurrentLedgers
    /\ workspace = UserWorkspace
    /\ store = [exists |-> FALSE, applied |-> {}]
    /\ report = None
    /\ outcome = NoOutcome
    /\ stages = <<>>
    /\ requests = <<>>
    /\ world = AnyWorld
    /\ \E a \in PackIds, b \in PackIds, now \in 1..MaxTime,
          op \in {"mark_installed", "mark_uninstalled"} :
         /\ a # b
         /\ aux = [spec |-> "SpecConcurrent",
                   procs |-> [i \in Procs |->
                                IF i = 1 THEN StateCall("mark_installed", a, now)
                                ELSE StateCall(op, b, now)]]
StandStill ==
    UNCHANGED <<pc, args, cache, pack_info, local, staging, workspace, store,
                report, outcome, stages, requests, world>>
\* state.py 27-28, 36-38: get_installed_packs and the change of the dict;
\* mark_uninstalled of a pack that is not in it writes nothing.
StateRead(i) ==
    LET me == aux.procs[i]
    IN  /\ me.at = "read"
        /\ IF me.op = "mark_installed"
           THEN aux' = [aux EXCEPT !.procs[i].at = "open",
                          !.procs[i].installed =
                              mark_installed(ledger, me.pack_id, me.info)]
           ELSE IF HasKey(get_installed_packs(ledger), me.pack_id)
           THEN aux' = [aux EXCEPT !.procs[i].at = "open",
                          !.procs[i].installed =
                              mark_uninstalled(ledger, me.pack_id)]
           ELSE aux' = [aux EXCEPT !.procs[i].at = "done"]
        /\ UNCHANGED ledger
        /\ StandStill
\* state.py 32, 40: write_text opens the file, which truncates it.
StateOpen(i) ==
    /\ aux.procs[i].at = "open"
    /\ ledger' = OpenForWrite(ledger)
    /\ aux' = [aux EXCEPT !.procs[i].at = "write"]
    /\ StandStill
\* state.py 32, 40: write_text writes the document.
StateWrite(i) ==
    /\ aux.procs[i].at = "write"
    /\ ledger' = WriteOver(ledger, JsonDumps(aux.procs[i].installed))
    /\ aux' = [aux EXCEPT !.procs[i].at = "done"]
    /\ StandStill
NextConcurrent ==
    \/ \E i \in Procs : StateRead(i)
    \/ \E i \in Procs : StateOpen(i)
    \/ \E i \in Procs : StateWrite(i)
SpecConcurrent == InitConcurrent /\ [][NextConcurrent]_vars

\* C27 (no lost ledger update): when both processes have returned, the
\* ledger is a document that reflects both calls: it holds the record of
\* each mark_installed and no record of the pack of a mark_uninstalled.
C27_NoLostUpdate ==
    (\A i \in Procs : aux.procs[i].at = "done")
    => /\ JsonObject(ledger.toks)
       /\ \A i \in Procs :
             LET me == aux.procs[i]
                 d == get_installed_packs(ledger)
             IN  IF me.op = "mark_installed"
                 THEN HasKey(d, me.pack_id) /\ Lookup(d, me.pack_id) = me.info
                 ELSE ~HasKey(d, me.pack_id)

\* ------------------------------------------------------ C28: update --all
\* A specification of `update --all` commands on a disk where p and q are
\* installed at 1.0.0, the registry listing both, q alone, or q at 1.0.0.
\* aux keeps the ledger's keys when the command read them (started), the
\* packs update_single_pack was called for (processed) and those still to
\* come (queue).
DiskBoth ==
    <<LedgerOf(<< <<"p", InstalledInfo("p", ManifestFull, "1.0.0", 1)>>,
                  <<"q", InstalledInfo("q", ManifestFull, "1.0.0", 1)>> >>),
      WorkspaceGood, [exists |-> FALSE, applied |-> {}], Some("q")>>
NoBatch == [spec |-> "SpecUpdateAll", started |-> <<>>, processed |-> <<>>,
            queue |-> <<>>]
InitUpdateAll ==
    /\ pc = "idle"
    /\ args = NoArgs
    /\ cache = None
    /\ pack_info = None
    /\ local = NoLocal
    /\ staging = None
    /\ OnDisk(DiskBoth)
    /\ outcome = NoOutcome
    /\ stages = <<>>
    /\ requests = <<>>
    /\ world = [docs |-> "pq", arts |-> "any"]
    /\ aux = NoBatch
\* update.py 21: installed.keys(), in the order of the document.
KeyList(d) == [i \in 1..Len(d) |-> d[i][1]]
\* cli.py 173-180: `simplifia update --all`.
CliUpdateAll ==
    /\ Start("update", "", FALSE, FALSE, "update_all")
    /\ aux' = NoBatch
    /\ UNCHANGED world
\* update.py 14-22: the ledger is read once; with no pack in it the command
\* returns, else the loop over its keys starts with the first.
UpdateAll ==
    /\ pc = "update_all"
    /\ LET installed == get_installed_packs(ledger)
       IN  IF installed = <<>>
           THEN /\ Return("None", "NothingInstalled")
                /\ UNCHANGED <<disk, aux>>
           ELSE /\ Goto("update")
                /\ args' = [args EXCEPT !.pack_id = Head(KeyList(installed))]
                /\ aux' = [aux EXCEPT !.started = KeyList(installed),
                                      !.processed = <<Head(KeyList(installed))>>,
                                      !.queue = Tail(KeyList(installed))]
                /\ UNCHANGED <<cache, pack_info, local, staging, disk, outcome,
                               requests>>
    /\ UNCHANGED world
\* update.py 21-22: update_single_pack has returned and the loop calls it
\* for the next key.  An exception it raised is caught nowhere: it ends
\* update_pack and the process.
UpdateNext ==
    /\ pc = "done"
    /\ outcome.result # "raised"
    /\ aux.queue # <<>>
    /\ Goto("update")
    /\ args' = [args EXCEPT !.pack_id = Head(aux.queue), !.force = FALSE]
    /\ outcome' = NoOutcome
    /\ aux' = [aux EXCEPT !.processed = Append(@, Head(aux.queue)),
                          !.queue = Tail(@)]
    /\ UNCHANGED <<cache, pack_info, local, staging, disk, requests, world>>
UpdateAllExit ==
    /\ outcome.result = "raised" \/ aux.queue = <<>>
    /\ ProcessExit
    /\ UNCHANGED <<world, aux>>
NextUpdateAll ==
    \/ CliUpdateAll
    \/ UpdateAll
    \/ UpdateNext
    \/ UpdateAllExit
    \/ UpdateSinglePack /\ UNCHANGED <<world, aux>>
    \/ UpdateDecide /\ UNCHANGED <<world, aux>>
    \/ Resolve /\ UNCHANGED <<world, aux>>
    \/ MkTemp /\ UNCHANGED <<world, aux>>
    \/ Download /\ UNCHANGED <<world, aux>>
    \/ Verify /\ UNCHANGED <<world, aux>>
    \/ Extract /\ UNCHANGED <<world, aux>>
    \/ FindManifest /\ UNCHANGED <<world, aux>>
    \/ Copy /\ UNCHANGED <<world, aux>>
    \/ Migrate /\ UNCHANGED <<world, aux>>
    \/ Commit /\ UNCHANGED <<world, aux>>
    \/ CommitOpen /\ UNCHANGED <<world, aux>>
    \/ CommitWrite /\ UNCHANGED <<world, aux>>
    \/ Report /\ UNCHANGED <<world, aux>>
SpecUpdateAll == InitUpdateAll /\ [][NextUpdateAll]_vars

\* C28 (update --all covers every pack): when the command ends, the single
\* pack update has run exactly once for each pack that was in the ledger
\* when the command read it, in the ledger's order, also when the update of
\* one of them failed (pack not in the registry, download error, digest
\* mismatch, corrupt archive, copy error).
C28_UpdateAllCoversEveryPack ==
    (/\ pc = "done"
     /\ outcome.result = "raised" \/ aux.queue = <<>>
     /\ outcome.reason \in {"UpToDate", "NotFound", "NoRelease", "FetchError",
                            "DigestMismatch", "Corrupt", "InstallError", "ok"})
    => aux.processed = aux.started

\* ------------------------------------------------- C29: guarded uninstall
\* C29 (uninstall is guarded): the first step of uninstall_pack changes no
\* file; for a pack that is not in the ledger it returns False, and it goes
\* on to the folder removal only for a pack that is in the ledger; an
\* uninstall that ended because the pack was not installed or the user
\* declined returned False without entering the removal or the ledger
\* write, and workspace, store and ledger are as that first step found them.
C29_UninstallGuarded ==
    /\ [][pc = "un_check" =>
            /\ disk' = disk
            /\ ~HasKey(get_installed_packs(ledger), args.pack_id) /\ pc' # "idle"
                 => /\ pc' = "done"
                    /\ outcome'.result = "False"
                    /\ outcome'.reason = "NotInstalled"
            /\ pc' = "done" =>
                 /\ outcome'.result = "False"
                 /\ outcome'.reason \in {"NotInstalled", "Cancelled"}
            /\ pc' \notin {"done", "idle"} =>
                 /\ pc' = "un_remove"
                 /\ HasKey(get_installed_packs(ledger), args.pack_id)]_vars
    /\ [](pc = "done" /\ outcome.reason \in {"NotInstalled", "Cancelled"}
             /\ args.op = "uninstall"
          => /\ stages = <<"un_check">>
             /\ outcome.result = "False")
\* The user declined the uninstall of an installed pack: it ended with
\* False, the pack is still in the ledger and its folder still in place.
C29_Witness ==
    /\ pc = "done"
    /\ args.op = "uninstall"
    /\ args.pack_id = "p"
    /\ outcome.reason = "Cancelled"
    /\ HasKey(get_installed_packs(ledger), "p")
    /\ workspace["workflows/p"].files["a"] # Absent

\* ------------------------------------------------- C30: the entitlement gate
\* The entitlement lists a manifest or a license may hold, and what the
\* manifest request of api.get_manifest may end in: ApiError("UNAUTHORIZED")
\* for status 401/403, another failure (ApiError for a status >= 400, a
\* transport error, a body that is no manifest), or the manifest.
EntitlementLists == {{}, {"p"}, {"q"}, {"all"}}
Responses ==
    {[kind |-> "unauthorized", entitlements |-> {}],
     [kind |-> "error", entitlements |-> {}]}
    \cup {[kind |-> "manifest", entitlements |-> e] : e \in EntitlementLists}
NoResponse == [kind |-> "none", entitlements |-> {}]

\* license.py 16-43 require_session_or_exit: typer.Exit(2) without a stored
\* session token, typer.Exit(3) for an unauthorized one, any other failure
\* of the request raised on, else the manifest.
require_session_or_exit(auth, response) ==
    IF ~auth THEN [kind |-> "exit", code |-> 2, entitlements |-> {}]
    ELSE IF response.kind = "unauthorized"
    THEN [kind |-> "exit", code |-> 3, entitlements |-> {}]
    ELSE IF response.kind = "error"
    THEN [kind |-> "raise", code |-> 0, entitlements |-> {}]
    ELSE [kind |-> "manifest", code |-> 0, entitlements |-> response.entitlements]
\* license.py 81-90 is_pack_entitled, on the legacy license's list.
is_pack_entitled(pack_id, entitlements) ==
    \/ pack_id = "base"
    \/ pack_id \in entitlements
    \/ "all" \in entitlements
\* Mutant: typer.Exit is swallowed by the `except Exception` like any other
\* failure, and the legacy license decides.
check_entitlement_swallows_exit(pack_id, auth, response, license) ==
    IF pack_id = "base" THEN [kind |-> "return", value |-> TRUE, code |-> 0]
    ELSE LET m == require_session_or_exit(auth, response)
         IN  IF m.kind = "manifest"
             THEN [kind |-> "return", code |-> 0,
                   value |-> pack_id \in m.entitlements \/ "all" \in m.entitlements]
             ELSE [kind |-> "return", code |-> 0,
                   value |-> is_pack_entitled(pack_id, license)]
\* license.py 244-288 check_entitlement_or_exit: True for 'base'; else the
\* manifest's list decides, typer.Exit goes through, and after any other
\* exception the legacy license decides.
check_entitlement_or_exit(pack_id, auth, response, license) ==
    IF pack_id = "base" THEN [kind |-> "return", value |-> TRUE, code |-> 0]
    ELSE LET m == require_session_or_exit(auth, response)
         IN  IF m.kind = "exit"
             THEN [kind |-> "exit", value |-> FALSE, code |-> m.code]
             ELSE IF m.kind = "manifest"
             THEN [kind |-> "return", code |-> 0,
                   value |-> pack_id \in m.entitlements \/ "all" \in m.entitlements]
             ELSE [kind |-> "return", code |-> 0,
                   value |-> is_pack_entitled(pack_id, license)]

\* A specification of install commands as cli.py runs them, the registry
\* listing p.  aux holds whether auth.json has a session token (auth), the
\* legacy license's list (license), the answer to the last manifest request
\* (response) and whether the running command was let through (granted).
\* The setup wizard of cli.py 162-163 writes config.json only and is left
\* out.
InitEntitlement ==
    /\ pc = "idle"
    /\ args = NoArgs
    /\ cache = None
    /\ pack_info = None
    /\ local = NoLocal
    /\ staging = None
    /\ OnDisk(DiskFresh)
    /\ outcome = NoOutcome
    /\ stages = <<>>
    /\ requests = <<>>
    /\ world = [docs |-> "p", arts |-> "any"]
    /\ \E auth \in BOOLEAN, license \in EntitlementLists :
         aux = [spec |-> "SpecEntitlement", auth |-> auth, license |-> license,
                response |-> NoResponse, granted |-> FALSE]
\* cli.py 153-165: `simplifia install <pack>`.
CliInstallGated ==
    /\ \E p \in PackIds \cup {"base"}, f \in BOOLEAN :
         Start("install", p, f, FALSE, "entitle")
    /\ aux' = [aux EXCEPT !.response = NoResponse, !.granted = FALSE]
    /\ UNCHANGED world
\* typer.Exit(code) leaves the command: the process ends with that status.
TyperExit(code, reqs) ==
    /\ pc' = "done"
    /\ outcome' = [result |-> "exit", reason |-> "typer.Exit", exit |-> code,
                   path |-> ""]
    /\ staging' = TemporaryDirectoryExit(staging)
    /\ requests' = reqs
    /\ pack_info' = None
    /\ local' = NoLocal
    /\ UNCHANGED <<args, stages, cache>>
\* cli.py 165-170: install_pack is called when the check returned True; on
\* False the command returns.  The manifest is requested for a pack other
\* than 'base' when a session token is stored.
Entitle(response) ==
    /\ pc = "entitle"
    /\ LET c == check_entitlement_or_exit(args.pack_id, aux.auth, response,
                                          aux.license)
           reqs == IF args.pack_id # "base" /\ aux.auth
                   THEN Append(requests,
                               Request("manifest", response.kind = "manifest"))
                   ELSE requests
       IN  IF c.kind = "exit" THEN TyperExit(c.code, reqs)
           ELSE IF c.value
           THEN /\ Goto("resolve")
                /\ requests' = reqs
                /\ UNCHANGED <<args, cache, pack_info, local, staging, outcome>>
           ELSE Finish("None", "NotEntitled", "", <<(<<>>), cache, reqs>>)
    /\ UNCHANGED disk
EntitleLogged ==
    \E response \in Responses :
        /\ Entitle(response)
        /\ aux' = [aux EXCEPT !.response = response, !.granted = (pc' = "resolve")]
        /\ UNCHANGED world
NextEntitlement ==
    \/ CliInstallGated
    \/ EntitleLogged
    \/ ProcessExit /\ UNCHANGED <<world, aux>>
    \/ Resolve /\ UNCHANGED <<world, aux>>
    \/ MkTemp /\ UNCHANGED <<world, aux>>
    \/ Download /\ UNCHANGED <<world, aux>>
    \/ Verify /\ UNCHANGED <<world, aux>>
    \/ Extract /\ UNCHANGED <<world, aux>>
    \/ FindManifest /\ UNCHANGED <<world, aux>>
    \/ Copy /\ UNCHANGED <<world, aux>>
    \/ Migrate /\ UNCHANGED <<world, aux>>
    \/ Commit /\ UNCHANGED <<world, aux>>
    \/ CommitOpen /\ UNCHANGED <<world, aux>>
    \/ CommitWrite /\ UNCHANGED <<world, aux>>
    \/ Report /\ UNCHANGED <<world, aux>>
SpecEntitlement == InitEntitlement /\ [][NextEntitlement]_vars

\* C30 (entitlement gate): the install command enters the pipeline only from
\* the entitlement check, and for a pack other than 'base' only when a
\* session token is stored and either the manifest lists the pack or 'all'
\* or the manifest request failed for another reason than authorization and
\* the legacy license lists the pack or 'all'; without a stored session the
\* command exits with status 2, with an unauthorized one with status 3, and
\* in both cases no file has changed, no registry or artifact request was
\* issued and no stage of the pipeline was entered.
C30_EntitlementGate ==
    /\ [][pc = "entitle" =>
            LET P == args.pack_id
                r == aux'.response
            IN  /\ disk' = disk
                /\ pc' = "resolve" =>
                     \/ P = "base"
                     \/ /\ aux.auth
                        /\ r.kind = "manifest"
                        /\ P \in r.entitlements \/ "all" \in r.entitlements
                     \/ /\ aux.auth
                        /\ r.kind = "error"
                        /\ P \in aux.license \/ "all" \in aux.license
                /\ (P # "base" /\ (~aux.auth \/ r.kind = "unauthorized")) =>
                     /\ pc' = "done"
                     /\ outcome'.exit = IF ~aux.auth THEN 2 ELSE 3]_vars
    /\ [](pc \notin {"idle", "entitle", "done"} => aux.granted)
    /\ [](pc = "done" /\ outcome.exit \in {2, 3} =>
             /\ stages = <<"entitle">>
             /\ \A i \in 1..Len(requests) : requests[i].to = "manifest"
             /\ ~aux.granted)
\* An install of p was stopped with status 3 by an unauthorized session,
\* though the legacy license lists p: nothing was requested from the
\* registry and the disk is as before.
C30_Witness ==
    /\ pc = "done"
    /\ args.pack_id = "p"
    /\ outcome.exit = 3
    /\ aux.license = {"p"}
    /\ aux.response.kind = "unauthorized"
    /\ stages = <<"entitle">>
====
